---- MODULE Spec2Model ----
(***************************************************************************)
(* A model of src/main.py: the Document AI -> Bitwarden import pipeline.   *)
(*                                                                         *)
(* Python strings are sequences of one-character strings (so that          *)
(* str.split and + are computed, not assumed).  A Python dict is a         *)
(* function whose DOMAIN is its key set; an optional value is a sequence   *)
(* of length 0 (None / no file) or 1.  A JSON file holds the value that    *)
(* json.dump wrote to it; key order and indentation are not modelled.      *)
(* The working directory is writable: export.json and                      *)
(* import_bitwarden.json can always be opened for writing.  What can fail  *)
(* is the client's construction, the input file, the service and the       *)
(* template file.                                                          *)
(***************************************************************************)
EXTENDS Naturals, Sequences, FiniteSets, TLC

VARIABLES
    pc,              \* position of main(): "idle", "extract", "export", "load", "map", "except", "done"
    args,            \* argparse namespace: file_path, project_id, location, processor_id
    input_readable,  \* whether open(args.file_path, "rb") can succeed in this run
    env,             \* what process_document met: was the client constructed, did the service answer
    response,        \* document.entities of the service's answer
    extracted_data,  \* the dict main() holds
    templateFile,    \* bitwarden_id_template.json as the mapper found it
    template,        \* the dict json.load returned, mutated in place
    exportFile,      \* export.json in the working directory
    importFile,      \* import_bitwarden.json in the working directory
    error,           \* the exception raised in this run, and by which function
    log,             \* what this run printed
    trace            \* the steps this run performed, in order

vars == <<pc, args, input_readable, env, response, extracted_data, templateFile, template,
          exportFile, importFile, error, log, trace>>

----------------------------------------------------------------------------
(* Bounds *)

MaxNameLen == 3      \* longest "name" text drawn for the mapper
MaxFields == 2       \* longest template "fields" sequence drawn
MaxEntities == 2     \* longest entity sequence drawn for the service's answer

----------------------------------------------------------------------------
(* Strings, dicts, optionals *)

None == <<>>
Some(v) == <<v>>

Chars == {"a", "b", " ", "\t"}

StrUpTo(n) == UNION {[1..k -> Chars] : k \in 0..n}

EmptyDict == [k \in {} |-> <<>>]
HasKey(m, k) == k \in DOMAIN m
SetKey(m, k, v) == [x \in (DOMAIN m) \cup {k} |-> IF x = k THEN v ELSE m[x]]

Last(s) == s[Len(s)]

\* str.split(sep) with a one-character separator: every occurrence of sep
\* cuts, so adjacent, leading and trailing separators give empty parts.
RECURSIVE split(_, _)
split(s, sep) ==
    IF \A i \in 1..Len(s) : s[i] # sep
    THEN <<s>>
    ELSE LET i == CHOOSE j \in 1..Len(s) :
                      s[j] = sep /\ \A k \in 1..(j - 1) : s[k] # sep
         IN  <<SubSeq(s, 1, i - 1)>> \o split(SubSeq(s, i + 1, Len(s)), sep)

ID == <<" ", "I", "D">>

----------------------------------------------------------------------------
(* Extraction Client: process_document *)

\* One entity of document.entities; normalized_value is None when the
\* entity carries none (the `if entity.normalized_value` test is false).
Entity(t, n, m) == [type_ |-> t, normalized_value |-> n, mention_text |-> m]

\* a slip: a type already stored is not overwritten
RECURSIVE entity_loop_first_wins(_, _)
entity_loop_first_wins(entities, data) ==
    IF entities = <<>>
    THEN data
    ELSE LET entity == Head(entities)
             text == IF entity.normalized_value # None
                     THEN entity.normalized_value[1]
                     ELSE entity.mention_text
         IN  entity_loop_first_wins(
                 Tail(entities),
                 IF HasKey(data, entity.type_) THEN data
                 ELSE SetKey(data, entity.type_, text))

\* The loop over document.entities: each entity stores under its type_,
\* a later entity of the same type overwriting an earlier one.
RECURSIVE entity_loop(_, _)
entity_loop(entities, data) ==
    IF entities = <<>>
    THEN data
    ELSE LET entity == Head(entities)
             text == IF entity.normalized_value # None
                     THEN entity.normalized_value[1]
                     ELSE entity.mention_text
         IN  entity_loop(Tail(entities), SetKey(data, entity.type_, text))

\* The outside world at one call: whether the client can be constructed
\* (credentials), whether file_path can be opened, whether the service
\* answers the request.
Envs == [client : BOOLEAN, file : BOOLEAN, service : BOOLEAN]
Remotes == [client : BOOLEAN, service : BOOLEAN]

\* a slip: the file is opened before the client is constructed
process_document_open_first(e, entities) ==
    IF ~e.file
    THEN [err |-> "FileNotFoundError", io |-> <<"process_document">>,
          data |-> EmptyDict]
    ELSE IF ~e.client
    THEN [err |-> "DefaultCredentialsError",
          io |-> <<"process_document", "read_input">>, data |-> EmptyDict]
    ELSE IF ~e.service
    THEN [err |-> "GoogleAPICallError",
          io |-> <<"process_document", "read_input", "service_request">>,
          data |-> EmptyDict]
    ELSE [err |-> "none",
          io |-> <<"process_document", "read_input", "service_request">>,
          data |-> entity_loop(entities, EmptyDict)]

\* process_document, statement by statement; the first failing statement
\* raises and nothing after it runs.
process_document(e, entities) ==
    IF ~e.client
    THEN [err |-> "DefaultCredentialsError", io |-> <<"process_document">>,
          data |-> EmptyDict]
    ELSE IF ~e.file
    THEN [err |-> "FileNotFoundError", io |-> <<"process_document">>,
          data |-> EmptyDict]
    ELSE IF ~e.service
    THEN [err |-> "GoogleAPICallError",
          io |-> <<"process_document", "read_input", "service_request">>,
          data |-> EmptyDict]
    ELSE [err |-> "none",
          io |-> <<"process_document", "read_input", "service_request">>,
          data |-> entity_loop(entities, EmptyDict)]

----------------------------------------------------------------------------
(* Template Mapper: the three rules of map_data_to_bitwarden *)

Raise(e, t) == [err |-> e, t |-> t]
Return(t) == [err |-> "none", t |-> t]

\* a slip: template.setdefault("identity", {}) for template["identity"]
NameRuleSetdefault(t, d) ==
    IF ~HasKey(d, "name") THEN Return(t)
    ELSE LET identity == IF HasKey(t, "identity") THEN t["identity"] ELSE EmptyDict
             parts == split(d["name"], " ")
             id1 == SetKey(identity, "firstName", parts[1])
             id2 == SetKey(id1, "lastName", Last(parts))
             t1 == SetKey(t, "identity", id2)
         IN  Return(SetKey(t1, "name", d["name"] \o ID))

\* if "name" in extracted_data: ...
NameRule(t, d) ==
    IF ~HasKey(d, "name") THEN Return(t)
    ELSE IF ~HasKey(t, "identity") THEN Raise("KeyError", t)
    ELSE LET parts == split(d["name"], " ")
             id1 == SetKey(t["identity"], "firstName", parts[1])
             id2 == SetKey(id1, "lastName", Last(parts))
             t1 == SetKey(t, "identity", id2)
         IN  Return(SetKey(t1, "name", d["name"] \o ID))

\* a slip: the break is missing
RECURSIVE ScanFieldsNoBreak(_, _)
ScanFieldsNoBreak(fields, v) ==
    IF fields = <<>>
    THEN <<>>
    ELSE IF Head(fields).name = "DOB"
         THEN <<[Head(fields) EXCEPT !.value = v]>> \o ScanFieldsNoBreak(Tail(fields), v)
         ELSE <<Head(fields)>> \o ScanFieldsNoBreak(Tail(fields), v)

\* for field in template["fields"]: if field["name"] == "DOB": set; break
RECURSIVE ScanFields(_, _)
ScanFields(fields, v) ==
    IF fields = <<>>
    THEN <<>>
    ELSE IF Head(fields).name = "DOB"
         THEN <<[Head(fields) EXCEPT !.value = v]>> \o Tail(fields)
         ELSE <<Head(fields)>> \o ScanFields(Tail(fields), v)

\* if "dob" in extracted_data: ...
DobRule(t, d) ==
    IF ~HasKey(d, "dob") THEN Return(t)
    ELSE IF ~HasKey(t, "fields") THEN Raise("KeyError", t)
    ELSE Return(SetKey(t, "fields", ScanFields(t["fields"], d["dob"])))

\* a slip: the identity object is replaced, not updated
AddressRuleFresh(t, d) ==
    IF ~HasKey(d, "address") THEN Return(t)
    ELSE IF ~HasKey(t, "identity") THEN Raise("KeyError", t)
    ELSE Return(SetKey(t, "identity", [address1 |-> d["address"]]))

\* if "address" in extracted_data: ...
AddressRule(t, d) ==
    IF ~HasKey(d, "address") THEN Return(t)
    ELSE IF ~HasKey(t, "identity") THEN Raise("KeyError", t)
    ELSE Return(SetKey(t, "identity",
                       SetKey(t["identity"], "address1", d["address"])))

\* The three rules in program order; an exception ends the sequence.
map_rules(t, d) ==
    LET r1 == NameRule(t, d)
        r2 == IF r1.err = "none" THEN DobRule(r1.t, d) ELSE r1
        r3 == IF r2.err = "none" THEN AddressRule(r2.t, d) ELSE r2
    IN  r3

----------------------------------------------------------------------------
(* Orchestrator: main *)

ArgNames == {"file_path", "project_id", "location", "processor_id"}
\* a flag left out is None; a flag given carries its text, possibly empty
ArgValues == {None, Some(""), Some("v")}
Truthy(a) == a # None /\ a[1] # ""

\* a slip: or for and
UseLiveAny(a) ==
    Truthy(a.file_path) \/ Truthy(a.project_id) \/ Truthy(a.location)
        \/ Truthy(a.processor_id)

\* if args.file_path and args.project_id and args.location and args.processor_id
UseLive(a) ==
    Truthy(a.file_path) /\ Truthy(a.project_id) /\ Truthy(a.location)
        /\ Truthy(a.processor_id)

\* the mock record of main
FallbackData ==
    [name |-> <<"J", "o", "h", "n", " ", "D", "o", "e">>,
     dob |-> <<"0", "1", "/", "0", "1", "/", "1", "9", "9", "0">>,
     address |-> <<"1", "2", "3", " ", "M", "a", "i", "n", " ", "S", "t", ",",
                   " ", "A", "n", "y", "t", "o", "w", "n", ",", " ", "U", "S",
                   "A">>]

Msg(text) == <<text>>
ErrMsg(e) == <<"An error occurred: ", e.type>>

NoError == [type |-> "none", by |-> "none"]
Err(type, by) == [type |-> type, by |-> by]

\* A file of the working directory: None when absent, else what it holds
\* and whether the run in progress (or just ended) wrote it.
Written(content) == Some([content |-> content, by_this_run |-> TRUE])
Stale(f) == IF f = None THEN None ELSE Some([f[1] EXCEPT !.by_this_run = FALSE])

\* bitwarden_id_template.json on disk
MissingFile == [state |-> "missing", value |-> EmptyDict]
MalformedFile == [state |-> "malformed", value |-> EmptyDict]
JsonFile(v) == [state |-> "json", value |-> v]

Init ==
    /\ pc = "idle"
    /\ args = [n \in ArgNames |-> None]
    /\ input_readable = FALSE
    /\ env = None
    /\ response = <<>>
    /\ extracted_data = EmptyDict
    /\ templateFile = None
    /\ template = EmptyDict
    /\ exportFile = None
    /\ importFile = None
    /\ error = NoError
    /\ log = <<>>
    /\ trace = <<>>

\* A new invocation of the script in the same working directory.
StartRun ==
    /\ pc \in {"idle", "done"}
    /\ \E a \in [ArgNames -> ArgValues] : args' = a
    /\ input_readable' \in BOOLEAN
    /\ env' = None
    /\ pc' = "extract"
    /\ response' = <<>>
    /\ extracted_data' = EmptyDict
    /\ templateFile' = None
    /\ template' = EmptyDict
    /\ exportFile' = Stale(exportFile)
    /\ importFile' = Stale(importFile)
    /\ error' = NoError
    /\ log' = <<>>
    /\ trace' = <<>>

\* main, the live branch: process_document is called with the arguments.
CallProcessDocument(Responses) ==
    /\ pc = "extract"
    /\ UseLive(args)
    /\ \E rem \in Remotes, r \in Responses :
          LET e == [client |-> rem.client, file |-> input_readable,
                    service |-> rem.service]
              res == process_document(e, r)
          IN
          /\ env' = Some(rem)
          /\ response' = IF res.err = "none" THEN r ELSE <<>>
          /\ trace' = trace \o res.io
          /\ log' = Append(log, Msg("Processing document with Google Document AI..."))
          /\ IF res.err = "none"
             THEN /\ extracted_data' = res.data
                  /\ pc' = "export"
                  /\ error' = error
             ELSE /\ extracted_data' = extracted_data
                  /\ pc' = "except"
                  /\ error' = Err(res.err, "process_document")
    /\ UNCHANGED <<args, input_readable, templateFile, template, exportFile,
                   importFile>>

\* main, the else branch: the mock record stands in.
UseMockData ==
    /\ pc = "extract"
    /\ ~UseLive(args)
    /\ log' = Append(log, Msg("Using mock data because not all required arguments were provided."))
    /\ extracted_data' = FallbackData
    /\ trace' = Append(trace, "mock_data")
    /\ pc' = "export"
    /\ UNCHANGED <<args, input_readable, env, response, templateFile, template, exportFile,
                   importFile, error>>

\* a slip: the snapshot is not written before the mapper is called
WriteExportSkipped ==
    /\ pc = "export"
    /\ pc' = "load"
    /\ UNCHANGED <<args, input_readable, env, response, extracted_data,
                   templateFile, template, exportFile, importFile, error, log,
                   trace>>

\* with open("export.json", "w") as f: json.dump(extracted_data, f, indent=4)
WriteExport ==
    /\ pc = "export"
    /\ exportFile' = Written(extracted_data)
    /\ trace' = Append(trace, "write_export")
    /\ log' = Append(log, Msg("Successfully created export.json"))
    /\ pc' = "load"
    /\ UNCHANGED <<args, input_readable, env, response, extracted_data,
                   templateFile, template, importFile, error>>

\* map_data_to_bitwarden, first statement: open and json.load the template.
LoadTemplate(TemplateFiles) ==
    /\ pc = "load"
    /\ \E f \in TemplateFiles :
          /\ templateFile' = Some(f)
          /\ IF f.state = "json"
             THEN /\ template' = f.value
                  /\ trace' = Append(trace, "load_template")
                  /\ pc' = "map"
                  /\ error' = error
             ELSE /\ template' = template
                  /\ trace' = trace
                  /\ pc' = "except"
                  /\ error' = Err(IF f.state = "missing" THEN "FileNotFoundError"
                                                        ELSE "JSONDecodeError",
                                  "map_data_to_bitwarden")
    /\ UNCHANGED <<args, input_readable, env, response, extracted_data, exportFile, importFile, log>>

\* a slip: an import_bitwarden.json already there is kept
MapAndSaveKeep ==
    /\ pc = "map"
    /\ LET r == map_rules(template, extracted_data) IN
       /\ template' = r.t
       /\ IF r.err # "none"
          THEN /\ error' = Err(r.err, "map_data_to_bitwarden")
               /\ pc' = "except"
               /\ UNCHANGED <<importFile, trace, log>>
          ELSE /\ importFile' = IF importFile = None THEN Written(r.t) ELSE importFile
               /\ trace' = Append(trace, "write_import")
               /\ log' = Append(log, Msg("Successfully mapped data and saved to import_bitwarden.json"))
               /\ pc' = "done"
               /\ error' = error
    /\ UNCHANGED <<args, input_readable, env, response, extracted_data,
                   templateFile, exportFile>>

\* map_data_to_bitwarden, the rest: the rules, then json.dump to
\* import_bitwarden.json and the closing message.
MapAndSave ==
    /\ pc = "map"
    /\ LET r == map_rules(template, extracted_data) IN
       /\ template' = r.t
       /\ IF r.err # "none"
          THEN /\ error' = Err(r.err, "map_data_to_bitwarden")
               /\ pc' = "except"
               /\ UNCHANGED <<importFile, trace, log>>
          ELSE /\ importFile' = Written(r.t)
               /\ trace' = Append(trace, "write_import")
               /\ log' = Append(log, Msg("Successfully mapped data and saved to import_bitwarden.json"))
               /\ pc' = "done"
               /\ error' = error
    /\ UNCHANGED <<args, input_readable, env, response, extracted_data,
                   templateFile, exportFile>>

\* a slip: except Exception: pass
ExceptPass ==
    /\ pc = "except"
    /\ pc' = "done"
    /\ UNCHANGED <<args, input_readable, env, response, extracted_data,
                   templateFile, template, exportFile, importFile, error, log,
                   trace>>

\* except Exception as e: print(f"An error occurred: {e}"); main returns.
Except ==
    /\ pc = "except"
    /\ log' = Append(log, ErrMsg(error))
    /\ pc' = "done"
    /\ UNCHANGED <<args, input_readable, env, response, extracted_data, templateFile, template,
                   exportFile, importFile, error, trace>>

----------------------------------------------------------------------------
(* Input domains *)

\* a dict from a record of optionals: the keys whose optional is present
MkDict(opts) == [k \in {x \in DOMAIN opts : opts[x] # None} |-> opts[k][1]]
Opt(S) == {None} \cup {Some(v) : v \in S}

Old == <<"o">>      \* what a template slot holds before the mapper runs

\* Templates: every subset of the keys the mapper touches, beside keys it
\* never touches (identity.middleName, notes).  The identity is an object
\* and every fields entry a {name, value} object, as in the template file
\* the repository ships for.
Identities ==
    {MkDict(o) : o \in [firstName : Opt({Old}), lastName : Opt({Old}),
                        address1 : Opt({Old}), middleName : {Some(Old)}]}
FieldEntries == [name : {"DOB", "SSN"}, value : {Old}]
FieldSeqs == UNION {[1..k -> FieldEntries] : k \in 0..MaxFields}
Templates ==
    {MkDict(o) : o \in [identity : Opt(Identities), name : Opt({Old}),
                        fields : Opt(FieldSeqs), notes : {Some(Old)}]}
AllTemplateFiles == {MissingFile, MalformedFile} \cup {JsonFile(t) : t \in Templates}

\* ExtractionResults handed to the mapper; "other" is an entity type
\* outside {name, dob, address}.
ExtractionResults ==
    {MkDict(o) : o \in [name : Opt(StrUpTo(MaxNameLen)), dob : Opt({<<"d">>}),
                        address : Opt({<<"a", " ", "b">>}), other : Opt({<<"x">>})]}

\* Service answers: every entity sequence up to MaxEntities.
EntityTypes == {"name", "dob", "other"}
Entities ==
    {Entity(t, n, m) : t \in EntityTypes, n \in Opt({<<"n">>}),
                       m \in {<<"a">>, <<"a", " ", "b">>}}
AllResponses == UNION {[1..k -> Entities] : k \in 0..MaxEntities}

\* The few answers and template files the multi-run specification draws.
StandardTemplate ==
    [identity |-> [firstName |-> Old, middleName |-> Old, lastName |-> Old,
                   address1 |-> Old],
     name |-> Old,
     fields |-> <<[name |-> "SSN", value |-> Old], [name |-> "DOB", value |-> Old]>>,
     notes |-> Old]
RunTemplateFiles ==
    {MissingFile, MalformedFile, JsonFile(StandardTemplate),
     JsonFile([name |-> Old, fields |-> <<>>, notes |-> Old]),
     JsonFile([identity |-> [middleName |-> Old], notes |-> Old])}
RunResponses ==
    {<<>>,
     <<Entity("name", None, <<"a", " ", "b">>)>>,
     <<Entity("dob", Some(<<"n">>), <<"a">>), Entity("name", None, <<"a">>)>>}

----------------------------------------------------------------------------
(* Specifications *)

\* Any sequence of runs in one working directory.
Next ==
    \/ StartRun
    \/ CallProcessDocument(RunResponses)
    \/ UseMockData
    \/ WriteExport
    \/ LoadTemplate(RunTemplateFiles)
    \/ MapAndSave
    \/ Except

Spec == Init /\ [][Next]_vars

\* The entity sequence that yields extraction result d, one entity a key.
RECURSIVE ResponseFor(_, _)
ResponseFor(d, keys) ==
    IF keys = <<>> THEN <<>>
    ELSE (IF HasKey(d, Head(keys))
          THEN <<Entity(Head(keys), None, d[Head(keys)])>> ELSE <<>>)
         \o ResponseFor(d, Tail(keys))

\* The mapper on every bounded ExtractionResult and template: main has
\* obtained d from the service and written export.json.
InitMap ==
    \E d \in ExtractionResults :
       /\ pc = "load"
       /\ args = [n \in ArgNames |-> Some("v")]
       /\ input_readable = TRUE
       /\ env = Some([client |-> TRUE, service |-> TRUE])
       /\ response = ResponseFor(d, <<"name", "dob", "address", "other">>)
       /\ extracted_data = d
       /\ templateFile = None
       /\ template = EmptyDict
       /\ exportFile = Written(d)
       /\ importFile = None
       /\ error = NoError
       /\ log = <<Msg("Processing document with Google Document AI..."),
                  Msg("Successfully created export.json")>>
       /\ trace = <<"process_document", "read_input", "service_request",
                    "write_export">>

NextMap ==
    \/ LoadTemplate(AllTemplateFiles)
    \/ MapAndSave
    \/ Except

SpecMap == InitMap /\ [][NextMap]_vars

\* The extraction client on every bounded service answer: main has parsed
\* a full set of arguments in a fresh working directory.
InitExtract ==
    /\ pc = "extract"
    /\ args = [n \in ArgNames |-> Some("v")]
    /\ input_readable \in BOOLEAN
    /\ env = None
    /\ response = <<>>
    /\ extracted_data = EmptyDict
    /\ templateFile = None
    /\ template = EmptyDict
    /\ exportFile = None
    /\ importFile = None
    /\ error = NoError
    /\ log = <<>>
    /\ trace = <<>>

NextExtract ==
    \/ CallProcessDocument(AllResponses)
    \/ Except

SpecExtract == InitExtract /\ [][NextExtract]_vars

----------------------------------------------------------------------------
(* Vocabulary of the properties *)

Events == {trace[i] : i \in DOMAIN trace}
Occurred(ev) == ev \in Events
Pos(ev) == CHOOSE i \in DOMAIN trace : trace[i] = ev
\* step b happened only after step a
Requires(b, a) == Occurred(b) => (Occurred(a) /\ Pos(a) < Pos(b))
NoRepeat == \A i, j \in DOMAIN trace : trace[i] = trace[j] => i = j

WrittenThisRun(f) == f # None /\ f[1].by_this_run
TemplateLoaded == templateFile # None /\ templateFile[1].state = "json"
LoadedTemplate == templateFile[1].value
DOBIndexes(fields) == {i \in DOMAIN fields : fields[i].name = "DOB"}

----------------------------------------------------------------------------
(* Runs of main in one working directory (Spec) *)

SomeArgNotSupplied == \E n \in ArgNames : args[n] = None
AllArgsSupplied == \A n \in ArgNames : args[n] # None

John == <<"J", "o", "h", "n">>
Doe == <<"D", "o", "e">>
JohnDoe == John \o <<" ">> \o Doe
JohnDoeID == JohnDoe \o <<" ", "I", "D">>
Jan1st1990 == <<"0", "1", "/", "0", "1", "/", "1", "9", "9", "0">>
MainSt ==
    <<"1", "2", "3", " ", "M", "a", "i", "n", " ", "S", "t", ",", " ", "A", "n",
      "y", "t", "o", "w", "n", ",", " ", "U", "S", "A">>

\* C1: a run in which one of file path, project id, location or processor id
\* is not supplied never calls process_document; it ends with export.json
\* holding exactly
\* name="John Doe", dob="01/01/1990", address="123 Main St, Anytown, USA",
\* and, when the template has an identity object and a fields entry named
\* "DOB", with import_bitwarden.json holding firstName="John",
\* lastName="Doe", name="John Doe ID", that entry's value="01/01/1990" and
\* address1="123 Main St, Anytown, USA".
C1_FallbackRun ==
    (pc \notin {"idle", "extract"} /\ SomeArgNotSupplied) =>
        /\ ~Occurred("process_document")
        /\ env = None
        /\ pc = "done" =>
              exportFile = Written([name |-> JohnDoe, dob |-> Jan1st1990,
                                    address |-> MainSt])
        /\ (/\ pc = "done"
            /\ TemplateLoaded
            /\ HasKey(LoadedTemplate, "identity")
            /\ HasKey(LoadedTemplate, "fields")
            /\ DOBIndexes(LoadedTemplate["fields"]) # {}) =>
              /\ WrittenThisRun(importFile)
              /\ LET out == importFile[1].content IN
                 /\ out["identity"]["firstName"] = John
                 /\ out["identity"]["lastName"] = Doe
                 /\ out["name"] = JohnDoeID
                 /\ out["identity"]["address1"] = MainSt
                 /\ \E i \in DOBIndexes(out["fields"]) :
                       out["fields"][i].value = Jan1st1990

C1_Witness ==
    /\ pc = "done"
    /\ SomeArgNotSupplied
    /\ error = NoError
    /\ WrittenThisRun(exportFile)
    /\ WrittenThisRun(importFile)

\* C6: an error raised in a run is caught by main: the handler is the next
\* step, it prints "An error occurred: <error>" as the run's last message and
\* main returns; no step of the run is performed twice, and none is
\* performed after the error (the run does not go on to write a file).
C6_ErrorsCaught ==
    /\ (error # NoError) <=> (pc = "except" \/ (pc = "done" /\ Last(log) = ErrMsg(error)))
    /\ pc = "except" => ENABLED Except
    /\ error # NoError =>
          /\ error.by \in {"process_document", "map_data_to_bitwarden"}
          /\ \A i \in 1..(Len(log) - 1) : Len(log[i]) = 1
    /\ NoRepeat
    /\ error.by = "process_document" => ~Occurred("write_export")
    /\ error.by = "process_document" => ~Occurred("load_template")
    /\ error # NoError => ~Occurred("write_import")

C6_Witness ==
    /\ pc = "done"
    /\ error.by = "map_data_to_bitwarden"
    /\ error.type = "KeyError"
    /\ Last(log) = ErrMsg(error)

\* C7 as claimed: with all four arguments supplied and an input file that
\* cannot be opened, the run ends with the file-not-found error logged and
\* writes neither file.
C7_Original ==
    (pc = "done" /\ AllArgsSupplied /\ ~input_readable) =>
        /\ error = Err("FileNotFoundError", "process_document")
        /\ Last(log) = ErrMsg(error)
        /\ ~WrittenThisRun(exportFile)
        /\ ~WrittenThisRun(importFile)

\* C7 amended: with all four arguments supplied and non-empty and an input
\* file that cannot be opened, the run ends with an error of
\* process_document logged, sends nothing to the service and writes neither
\* file; the error is the file-not-found error when the client could be
\* constructed and the client's construction error otherwise.
C7_Amended ==
    (pc = "done" /\ UseLive(args) /\ ~input_readable) =>
        /\ error.by = "process_document"
        /\ error.type = IF env[1].client THEN "FileNotFoundError"
                                         ELSE "DefaultCredentialsError"
        /\ Last(log) = ErrMsg(error)
        /\ ~Occurred("service_request")
        /\ ~WrittenThisRun(exportFile)
        /\ ~WrittenThisRun(importFile)

C7_Witness ==
    /\ pc = "done"
    /\ UseLive(args)
    /\ ~input_readable
    /\ env[1].client
    /\ error.type = "FileNotFoundError"
    /\ importFile # None

\* C8: in every run the ExtractionResult is obtained, then export.json is
\* written, then the template is loaded, then import_bitwarden.json is
\* written; import_bitwarden.json is written only after export.json was
\* written in the same run with the same ExtractionResult; a run whose
\* extraction fails writes neither file; a run whose mapping fails has
\* written export.json and not import_bitwarden.json.
C8_StepOrder ==
    /\ trace # <<>> => trace[1] \in {"process_document", "mock_data"}
    /\ Occurred("write_export") =>
          \/ Requires("write_export", "mock_data") /\ Occurred("mock_data")
          \/ Requires("write_export", "service_request") /\ Occurred("service_request")
    /\ Requires("load_template", "write_export")
    /\ Requires("write_import", "load_template")
    /\ WrittenThisRun(exportFile) <=> Occurred("write_export")
    /\ WrittenThisRun(importFile) <=> Occurred("write_import")
    /\ Occurred("write_export") => exportFile[1].content = extracted_data
    /\ Occurred("write_import") =>
          importFile[1].content = map_rules(LoadedTemplate, exportFile[1].content).t
    /\ error.by = "process_document" =>
          ~WrittenThisRun(exportFile) /\ ~WrittenThisRun(importFile)
    /\ error.by = "map_data_to_bitwarden" =>
          WrittenThisRun(exportFile) /\ ~WrittenThisRun(importFile)

C8_Witness ==
    /\ pc = "done"
    /\ error.by = "map_data_to_bitwarden"
    /\ WrittenThisRun(exportFile)
    /\ ~WrittenThisRun(importFile)

\* C9 as claimed: when a run has ended, neither file holds what an earlier
\* run wrote, and import_bitwarden.json exists only if the run succeeded.
C9_Original ==
    pc = "done" =>
        /\ exportFile # None => exportFile[1].by_this_run
        /\ importFile # None => (importFile[1].by_this_run /\ error = NoError)

\* C9 amended: a run that ends without error has overwritten both files,
\* which then hold this run's ExtractionResult and mapped template and
\* nothing else; a file holds what an earlier run wrote only after a run that
\* failed before reaching that file's write; import_bitwarden.json written
\* by the run itself signals its success.
C9_Amended ==
    pc = "done" =>
        /\ error = NoError =>
              /\ exportFile = Written(extracted_data)
              /\ importFile = Written(template)
        /\ (exportFile # None /\ ~exportFile[1].by_this_run) =>
              (error # NoError /\ ~Occurred("write_export"))
        /\ (importFile # None /\ ~importFile[1].by_this_run) =>
              (error # NoError /\ ~Occurred("write_import"))
        /\ WrittenThisRun(importFile) => error = NoError

C9_Witness ==
    /\ pc = "done"
    /\ error # NoError
    /\ importFile # None
    /\ ~importFile[1].by_this_run
    /\ WrittenThisRun(exportFile)

----------------------------------------------------------------------------
(* The mapper on bounded ExtractionResults and templates (SpecMap) *)

Min(S) == CHOOSE x \in S : \A y \in S : x <= y
Max(S) == CHOOSE x \in S : \A y \in S : x >= y
Restrict(m, keys) == [k \in (DOMAIN m) \cap keys |-> m[k]]

Whitespace == {" ", "\t", "\n"}

\* the words of a text: its maximal runs of non-whitespace characters
RECURSIVE Tokens(_)
Tokens(s) ==
    IF s = <<>> THEN <<>>
    ELSE IF Head(s) \in Whitespace THEN Tokens(Tail(s))
    ELSE LET k == CHOOSE n \in 1..Len(s) :
                     /\ \A i \in 1..n : s[i] \notin Whitespace
                     /\ n = Len(s) \/ s[n + 1] \in Whitespace
         IN  <<SubSeq(s, 1, k)>> \o Tokens(SubSeq(s, k + 1, Len(s)))

MapperSaved == pc = "done" /\ WrittenThisRun(importFile)
Saved == importFile[1].content

C3_FirstDOBOnly ==
    (MapperSaved /\ HasKey(extracted_data, "dob")) =>
        LET before == LoadedTemplate["fields"]
            after == Saved["fields"]
            dobs == DOBIndexes(before)
        IN  /\ Len(after) = Len(before)
            /\ \A i \in DOMAIN before :
                  after[i] = IF dobs # {} /\ i = Min(dobs)
                             THEN [name |-> "DOB", value |-> extracted_data["dob"]]
                             ELSE before[i]

C3_Witness ==
    /\ MapperSaved
    /\ HasKey(extracted_data, "dob")
    /\ Cardinality(DOBIndexes(LoadedTemplate["fields"])) >= 2
    /\ Saved["fields"] # LoadedTemplate["fields"]

\* C4: the saved template is the loaded one except in the slots of the rules
\* whose key the ExtractionResult has: identity.firstName, identity.lastName
\* and name for "name", the value of the first "DOB" entry for "dob",
\* identity.address1 for "address".  Every other key, identity slot and
\* fields entry is as loaded, the fields keep their number and order, and a
\* key outside {name, dob, address} adds nothing and changes nothing.
C4_Frame ==
    MapperSaved =>
        LET t0 == LoadedTemplate
            t1 == Saved
            d == extracted_data
            nameSlots == IF HasKey(d, "name") THEN {"firstName", "lastName"} ELSE {}
            addrSlots == IF HasKey(d, "address") THEN {"address1"} ELSE {}
        IN  /\ DOMAIN t1 = (DOMAIN t0) \cup (IF HasKey(d, "name") THEN {"name"} ELSE {})
            /\ \A k \in (DOMAIN t0) \ {"identity", "name", "fields"} : t1[k] = t0[k]
            /\ (HasKey(t0, "name") /\ ~HasKey(d, "name")) => t1["name"] = t0["name"]
            /\ HasKey(t0, "identity") =>
                  /\ DOMAIN t1["identity"] =
                        (DOMAIN t0["identity"]) \cup nameSlots \cup addrSlots
                  /\ \A slot \in (DOMAIN t0["identity"]) \ (nameSlots \cup addrSlots) :
                        t1["identity"][slot] = t0["identity"][slot]
            /\ HasKey(t0, "fields") =>
                  /\ Len(t1["fields"]) = Len(t0["fields"])
                  /\ \A i \in DOMAIN t0["fields"] :
                        /\ t1["fields"][i].name = t0["fields"][i].name
                        /\ t1["fields"][i] # t0["fields"][i] =>
                              /\ HasKey(d, "dob")
                              /\ i = Min(DOBIndexes(t0["fields"]))
            /\ t1 = map_rules(t0, Restrict(d, {"name", "dob", "address"})).t

C4_Witness ==
    /\ MapperSaved
    /\ DOMAIN extracted_data = {"name", "other"}
    /\ HasKey(LoadedTemplate, "fields")
    /\ DOBIndexes(LoadedTemplate["fields"]) # {}
    /\ Saved["fields"] = LoadedTemplate["fields"]
    /\ Saved # LoadedTemplate

LacksExpectedKey(t) ==
    \/ ~HasKey(t, "identity")
    \/ \E slot \in {"firstName", "lastName", "address1"} : ~HasKey(t["identity"], slot)
    \/ ~HasKey(t, "name")
    \/ ~HasKey(t, "fields")

\* C10 as claimed: with a loaded template that lacks the identity object,
\* one of its slots firstName, lastName, address1, the top-level name or the
\* fields sequence, the mapper ends in an error and does not write
\* import_bitwarden.json, whatever the ExtractionResult.
C10_Original ==
    (pc = "done" /\ TemplateLoaded /\ LacksExpectedKey(LoadedTemplate)) =>
        (error # NoError /\ ~WrittenThisRun(importFile))

\* C10 amended: on a template whose fields entries are {name, value}
\* objects, the mapper fails with a KeyError, and does not write
\* import_bitwarden.json, exactly when the loaded template lacks the
\* identity object and the ExtractionResult has "name" or "address", or lacks
\* the fields sequence and the ExtractionResult has "dob"; a missing
\* identity slot or top-level name is created by the assignment, and a
\* missing object whose rules do not apply is never read.
C10_Amended ==
    (pc = "done" /\ TemplateLoaded) =>
        LET t == LoadedTemplate
            d == extracted_data
            fatal == \/ ~HasKey(t, "identity") /\ (HasKey(d, "name") \/ HasKey(d, "address"))
                     \/ ~HasKey(t, "fields") /\ HasKey(d, "dob")
        IN  /\ fatal => /\ error = Err("KeyError", "map_data_to_bitwarden")
                        /\ ~WrittenThisRun(importFile)
            /\ ~fatal => (error = NoError /\ WrittenThisRun(importFile))

C10_Witness ==
    /\ pc = "done"
    /\ TemplateLoaded
    /\ ~HasKey(LoadedTemplate, "identity")
    /\ HasKey(LoadedTemplate, "fields")
    /\ DOMAIN extracted_data = {"name"}
    /\ error.type = "KeyError"

----------------------------------------------------------------------------
(* The extraction client on bounded service answers (SpecExtract) *)

TextOf(entity) ==
    IF entity.normalized_value # None THEN entity.normalized_value[1]
                                      ELSE entity.mention_text

\* C5: the mapping process_document returns has exactly the entity types of
\* the answer as keys, and under each type the text of the last entity of
\* that type in the answer's order: its normalized value's text when it has
\* a normalized value, else its mention text.
C5_LastEntityWins ==
    (pc = "export" /\ Occurred("service_request")) =>
        /\ DOMAIN extracted_data = {response[i].type_ : i \in DOMAIN response}
        /\ \A t \in DOMAIN extracted_data :
              extracted_data[t] =
                  TextOf(response[Max({i \in DOMAIN response : response[i].type_ = t})])

C5_Witness ==
    /\ pc = "export"
    /\ Len(response) >= 2
    /\ response[1].type_ = response[2].type_
    /\ response[1].normalized_value # None
    /\ response[2].normalized_value = None
    /\ extracted_data[response[1].type_] = response[2].mention_text

====
